---- MODULE Spec2Model ----
(***************************************************************************)
(* Model of the billing parser: the schema detector (get_csv_parser), the  *)
(* three pipelines (parse_billing_csv of the AWS, Azure and GCP parsers),  *)
(* the command line dispatcher (cli) and the instance-type lookup cache.   *)
(*                                                                         *)
(* Numbers: pandas computes the category columns in IEEE doubles.  The     *)
(* model computes them as exact rationals n / (d * 2^e), so that a property*)
(* such as "compute = 2.0" is an equality of numbers; floating-point       *)
(* rounding is not modelled.  A missing value (NaN) is a value of its own. *)
(***************************************************************************)
EXTENDS Integers, Sequences, FiniteSets, TLC

VARIABLES
    pc,                 \* where the run is: "start", "detected", "read", "done"
    kind,               \* what the caller passes: "filename" or "stream"
    header,             \* the first line of the file: its column names
    rows,               \* the data rows of the file
    stream_pos,         \* read position of the caller's stream, in lines
    opened_at,          \* that position when the call began
    read_back,          \* what the caller reads after the detection
    label,              \* first component of the result of get_csv_parser
    parser,             \* second component of the result of get_csv_parser
    provider,           \* the pipeline that is called
    use_cache,          \* the --use-cache/--no-cache flag
    cache_file,         \* the instance-type cache on disk
    ec2_api,            \* what the remote query answers, page by page
    instance_types,     \* the lookup handed to the pipeline
    runs,               \* the runs made so far
    saved,              \* the mapping this program wrote to the cache last
    status,             \* "none", "ok" or the exception that was raised
    df,                 \* the detail table
    total_df            \* the summary table

vars == <<pc, kind, header, rows, stream_pos, opened_at, read_back, label, parser,
          provider, use_cache, cache_file, ec2_api, instance_types, runs, saved,
          status, df, total_df>>

----------------------------------------------------------------------------
(* Bounds of the model.                                                    *)

\* the longest input file, in data rows
MaxRows == 2

\* the most pages the remote query answers with
MaxPages == 2

\* the most runs of Provider A in a row
MaxRuns == 2

----------------------------------------------------------------------------
(* Exact arithmetic standing for the float64 columns.                      *)

RECURSIVE GCD(_, _)
GCD(a, b) == IF b = 0 THEN a ELSE GCD(b, a % b)

RECURSIVE Pow2(_)
Pow2(k) == IF k = 0 THEN 1 ELSE 2 * Pow2(k - 1)

\* the exponent of 2 in k > 0, and what is left of k
RECURSIVE Twos(_)
Twos(k) == IF k % 2 = 0 THEN 1 + Twos(k \div 2) ELSE 0

RECURSIVE OddPart(_)
OddPart(k) == IF k % 2 = 0 THEN OddPart(k \div 2) ELSE k

Min(a, b) == IF a <= b THEN a ELSE b
Max(a, b) == IF a >= b THEN a ELSE b

\* numpy.nan: d = 0 marks the missing value
NaN == [n |-> 0, d |-> 0, e |-> 0]
IsNaN(x) == x.d = 0

\* the number n / (d * 2^e) in lowest terms (n >= 0, d odd and positive)
Norm(n, d, e) ==
    IF n = 0 THEN [n |-> 0, d |-> 1, e |-> 0]
    ELSE LET g  == GCD(n, d)
             n1 == n \div g
             t  == Min(Twos(n1), e)
         IN  [n |-> n1 \div Pow2(t), d |-> d \div g, e |-> e - t]

\* an integer as a float
Num(k) == Norm(k, 1, 0)

\* x / k for an integer k > 0
DivInt(x, k) ==
    IF IsNaN(x) THEN NaN ELSE Norm(x.n, x.d * OddPart(k), x.e + Twos(k))

\* x / (ks[1] * ks[2] * ...): the divisor is kept as its factors, the product
\* 3600 * 1024 * 744 being larger than the integers TLC computes with
RECURSIVE DivProd(_, _)
DivProd(x, ks) ==
    IF ks = <<>> THEN x ELSE DivProd(DivInt(x, Head(ks)), Tail(ks))

\* v * x for an integer v >= 0
MulInt(v, x) == IF IsNaN(x) THEN NaN ELSE Norm(v * x.n, x.d, x.e)

\* x + y
Add(x, y) ==
    IF IsNaN(x) \/ IsNaN(y) THEN NaN
    ELSE LET g == GCD(x.d, y.d)
             l == (x.d \div g) * y.d
             e == Max(x.e, y.e)
         IN  Norm(x.n * (l \div x.d) * Pow2(e - x.e)
                    + y.n * (l \div y.d) * Pow2(e - y.e), l, e)

\* a sum that a missing value makes missing
RECURSIVE SumKeepNa(_)
SumKeepNa(xs) ==
    IF xs = <<>> THEN Num(0) ELSE Add(Head(xs), SumKeepNa(Tail(xs)))

\* Series.sum() with skipna: missing values are left out, an empty sum is 0
RECURSIVE SumSkipNa(_)
SumSkipNa(xs) ==
    IF xs = <<>> THEN Num(0)
    ELSE IF IsNaN(Head(xs)) THEN SumSkipNa(Tail(xs))
    ELSE Add(Head(xs), SumSkipNa(Tail(xs)))

----------------------------------------------------------------------------
(* Text.  A numeric cell of the CSV file is a sequence of characters; a    *)
(* usage type is a sequence of tokens in which ":" is a token of its own.  *)

Digits == <<"0", "1", "2", "3", "4", "5", "6", "7", "8", "9">>

DigitValue(c) == (CHOOSE i \in 1..10 : Digits[i] = c) - 1

IsDigit(c) == \E i \in 1..10 : Digits[i] = c

\* a cell that read_csv and float() take as a number: digits only
IsNumeric(s) == s # <<>> /\ \A i \in 1..Len(s) : IsDigit(s[i])

RECURSIVE DigitsValue(_)
DigitsValue(s) ==
    IF s = <<>> THEN 0
    ELSE 10 * DigitsValue(SubSeq(s, 1, Len(s) - 1)) + DigitValue(s[Len(s)])

\* str.replace(",", "")
StripCommas(s) == SelectSeq(s, LAMBDA c : c # ",")

\* str.split(":")[-1]: the tokens after the last ":"
RECURSIVE LastSegment(_)
LastSegment(s) ==
    IF s = <<>> THEN <<>>
    ELSE IF s[Len(s)] = ":" THEN <<>>
    ELSE LastSegment(SubSeq(s, 1, Len(s) - 1)) \o <<s[Len(s)]>>

\* str.contains(marker) for a marker free of regular-expression operators
Contains(s, marker) ==
    \E i \in 1..(Len(s) - Len(marker) + 1) :
        SubSeq(s, i, i + Len(marker) - 1) = marker

----------------------------------------------------------------------------
(* Calendar.                                                               *)

IsLeap(y) == (y % 4 = 0 /\ y % 100 # 0) \/ y % 400 = 0

\* calendar.monthrange(year, month)[1]
DaysInMonth(y, m) ==
    IF m = 2 THEN (IF IsLeap(y) THEN 29 ELSE 28)
    ELSE IF m \in {4, 6, 9, 11} THEN 30 ELSE 31

----------------------------------------------------------------------------
(* Values shared by the pipelines.                                         *)

\* an empty cell of the CSV file (NaN in a text column)
Null == "<null>"

\* Python's None as the result of dict.get: no vCPU count is negative
None == -1

\* the group keys in the order groupby sorts them
GroupOrder == <<"111", "222", "999">>

\* the keys of GroupOrder that occur in the column, in that order
GroupKeys(keys) == SelectSeq(GroupOrder, LAMBDA k : \E i \in 1..Len(keys) : keys[i] = k)

\* column c of the rows of a table, as a sequence
Column(table, c) == [i \in 1..Len(table) |-> table[i][c]]

\* a total that misses the first group
ColumnTotalSkipFirst(groups, c) ==
    IF groups = <<>> THEN Num(0) ELSE SumSkipNa(Column(Tail(groups), c))

\* total_df[c].sum(): the value of the Total row in column c
ColumnTotal(groups, c) == SumSkipNa(Column(groups, c))

----------------------------------------------------------------------------
(* Provider A: parsers/aws_parser.py                                       *)

Lambda_GB_Second == <<"Lambda-GB-Second">>
Fargate_vCPU_Hours_perCPU == <<"Fargate-vCPU-Hours", ":", "perCPU">>

\* every month taken to have 31 days
NumHoursIn31Days(date) == 31 * 24

\* lines 146-152: NumHoursInMonth, from the row's own UsageStartDate
NumHoursInMonth(date) == DaysInMonth(date.y, date.m) * 24

\* the function gate without its condition on the usage type
lambda_mask_product_only(r) == r.ProductCode = "AWSLambda"

\* lines 169-171 and 178-180: the rows a category is computed for
lambda_mask(r) ==
    r.ProductCode = "AWSLambda" /\ Contains(r.UsageType, Lambda_GB_Second)

\* the container gate with "or" for "and"
fargate_mask_either(r) ==
    r.ProductCode = "AmazonECS" \/ Contains(r.UsageType, Fargate_vCPU_Hours_perCPU)

fargate_mask(r) ==
    r.ProductCode = "AmazonECS" /\ Contains(r.UsageType, Fargate_vCPU_Hours_perCPU)

\* a row of the file after lines 146-181 have added the derived columns
AwsDerive(i, r, lookup) ==
    LET hours    == NumHoursInMonth(r.UsageStartDate)
        quantity == Num(DigitsValue(StripCommas(r.UsageQuantity)))
        name     == LastSegment(r.UsageType)
        vcpu     == IF name \in DOMAIN lookup THEN lookup[name] ELSE None
        numInst  == IF vcpu # None THEN DivInt(quantity, hours) ELSE NaN
    IN  [index            |-> i,
         RecordType       |-> r.RecordType,
         LinkedAccountId  |-> r.LinkedAccountId,
         ProductCode      |-> r.ProductCode,
         UsageType        |-> r.UsageType,
         UsageStartDate   |-> r.UsageStartDate,
         NumHoursInMonth  |-> hours,
         UsageQuantity    |-> quantity,
         InstanceName     |-> IF vcpu = None THEN <<Null>> ELSE name,
         InstanceVCPU     |-> vcpu,
         numInstances     |-> numInst,
         EC2              |-> IF vcpu = None THEN NaN ELSE MulInt(vcpu, numInst),
         Lambda           |-> IF lambda_mask(r)
                              THEN DivProd(quantity, <<3600, 1024, hours>>)
                              ELSE Num(0),
         Fargate          |-> IF fargate_mask(r)
                              THEN DivInt(quantity, hours)
                              ELSE Num(0)]

\* the rows kept when the AccountTotal filter of line 135 is left out
AwsRetainedWithTotals(file) ==
    LET indexed == [i \in 1..Len(file) |-> [i |-> i, r |-> file[i]]]
        allNull == \A k \in 1..Len(indexed) : indexed[k].r.LinkedAccountId = Null
        filled  == [k \in 1..Len(indexed) |->
                      IF allNull /\ indexed[k].r.RecordType = "PayerLineItem"
                      THEN [indexed[k] EXCEPT !.r.LinkedAccountId = indexed[k].r.PayerAccountId]
                      ELSE indexed[k]]
    IN  SelectSeq(filled, LAMBDA x : x.r.LinkedAccountId # Null)

\* the rows kept when a payer line item is given its payer's identifier
\* whether or not another row has a LinkedAccountId
AwsRetainedAnyPayer(file) ==
    LET indexed == [i \in 1..Len(file) |-> [i |-> i, r |-> file[i]]]
        noTotal == SelectSeq(indexed, LAMBDA x : x.r.RecordType # "AccountTotal")
        filled  == [k \in 1..Len(noTotal) |->
                      IF noTotal[k].r.LinkedAccountId = Null
                           /\ noTotal[k].r.RecordType = "PayerLineItem"
                      THEN [noTotal[k] EXCEPT !.r.LinkedAccountId = noTotal[k].r.PayerAccountId]
                      ELSE noTotal[k]]
    IN  SelectSeq(filled, LAMBDA x : x.r.LinkedAccountId # Null)

\* lines 135-143: the rows kept, each with its position in the file
AwsRetained(file) ==
    LET indexed == [i \in 1..Len(file) |-> [i |-> i, r |-> file[i]]]
        noTotal == SelectSeq(indexed, LAMBDA x : x.r.RecordType # "AccountTotal")
        allNull == \A k \in 1..Len(noTotal) : noTotal[k].r.LinkedAccountId = Null
        filled  == [k \in 1..Len(noTotal) |->
                      IF allNull /\ noTotal[k].r.RecordType = "PayerLineItem"
                      THEN [noTotal[k] EXCEPT !.r.LinkedAccountId = noTotal[k].r.PayerAccountId]
                      ELSE noTotal[k]]
    IN  SelectSeq(filled, LAMBDA x : x.r.LinkedAccountId # Null)

\* lines 184-206: one row per group, then the Total row
AwsSummary(detail) ==
    LET keys   == GroupKeys(Column(detail, "LinkedAccountId"))
        group(k) == SelectSeq(detail, LAMBDA r : r.LinkedAccountId = k)
        groups == [g \in 1..Len(keys) |->
                     [label   |-> keys[g],
                      EC2     |-> SumSkipNa(Column(group(keys[g]), "EC2")),
                      Lambda  |-> SumSkipNa(Column(group(keys[g]), "Lambda")),
                      Fargate |-> SumSkipNa(Column(group(keys[g]), "Fargate"))]]
    IN  Append(groups,
               [label   |-> "Total",
                EC2     |-> ColumnTotal(groups, "EC2"),
                Lambda  |-> ColumnTotal(groups, "Lambda"),
                Fargate |-> ColumnTotal(groups, "Fargate")])

\* parse_billing_csv(filename, instance_types).  emptyApply is what the
\* installed pandas does when DataFrame.apply(axis=1) runs on a frame without
\* rows and its result is assigned to one column (line 149): "raise" or "frame".
aws_parse_billing_csv(file, lookup, emptyApply) ==
    LET kept == AwsRetained(file)
        \* read_csv reads a column of plain numbers as int64, any other as text
        numericColumn == file # <<>> /\ \A i \in 1..Len(file) : IsNumeric(file[i].UsageQuantity)
        detail == [k \in 1..Len(kept) |-> AwsDerive(kept[k].i, kept[k].r, lookup)]
    IN  IF kept = <<>> /\ emptyApply = "raise"
        THEN [status |-> "ValueError", df |-> <<>>, total_df |-> <<>>]
        ELSE IF numericColumn
        THEN [status |-> "AttributeError", df |-> <<>>, total_df |-> <<>>]
        ELSE IF \E k \in 1..Len(kept) : ~IsNumeric(StripCommas(kept[k].r.UsageQuantity))
        THEN [status |-> "ValueError", df |-> <<>>, total_df |-> <<>>]
        ELSE [status |-> "ok", df |-> detail, total_df |-> AwsSummary(detail)]

----------------------------------------------------------------------------
(* JSON.  A text is JsonMalformed when json cannot parse it, or the        *)
(* document it spells: an object with its members in the order they are    *)
(* written, an array, or a number.  A Python value is a dict (a function   *)
(* on its keys), a list or an int.                                         *)

JsonMalformed == [kind |-> "malformed", members |-> <<>>, value |-> 0]
JsonArray == [kind |-> "array", members |-> <<>>, value |-> 0]
JsonNumber(k) == [kind |-> "number", members |-> <<>>, value |-> k]
JsonNull == [kind |-> "null", members |-> <<>>, value |-> 0]
JsonObject(ms) == [kind |-> "object", members |-> ms, value |-> 0]
Member(k, v) == [key |-> k, value |-> v]

PyInt(k) == [type |-> "int", items |-> <<>>, value |-> k]
PyList == [type |-> "list", items |-> <<>>, value |-> 0]
PyNone == [type |-> "NoneType", items |-> <<>>, value |-> 0]
PyDict(f) == [type |-> "dict", items |-> f, value |-> 0]

\* json.load / json.loads of a text that parses: of two members with the same
\* key the later one wins
RECURSIVE JsonLoads(_)
JsonLoads(text) ==
    IF text.kind = "number" THEN PyInt(text.value)
    ELSE IF text.kind = "array" THEN PyList
    ELSE IF text.kind = "null" THEN PyNone
    ELSE LET ms   == text.members
             keys == {ms[i].key : i \in 1..Len(ms)}
             last(k) == CHOOSE i \in 1..Len(ms) :
                            /\ ms[i].key = k
                            /\ \A j \in (i + 1)..Len(ms) : ms[j].key # k
         IN  PyDict([k \in keys |-> JsonLoads(ms[last(k)].value)])

----------------------------------------------------------------------------
(* Provider B: azure_parser.py                                             *)

\* an empty additionalInfo cell: read_csv gives the float nan
NanCell == [kind |-> "nan", members |-> <<>>, value |-> 0]

\* extract_vcpu(row): every exception gives 0, and additional_info["VCPUs"]
\* is returned as it is, None for a JSON null
extract_vcpu(r) ==
    LET info == r.additionalInfo
    IN  IF info.kind \in {"nan", "malformed"} THEN 0
        ELSE LET loaded == JsonLoads(info)
             IN  IF loaded.type # "dict" THEN 0
                 ELSE IF "VCPUs" \notin DOMAIN loaded.items THEN 0
                 ELSE IF loaded.items["VCPUs"].type = "NoneType" THEN None
                 ELSE loaded.items["VCPUs"].value

AzureDerive(i, r) ==
    LET hours    == NumHoursInMonth(r.billingPeriodStartDate)
        seconds  == hours * 3600
        quantity == Num(DigitsValue(r.quantity))
        vcpu     == extract_vcpu(r)
        monthly  == IF r.unitOfMeasure = "1 Hour" THEN DivInt(quantity, hours) ELSE Num(0)
    IN  [index                  |-> i,
         billingPeriodStartDate |-> r.billingPeriodStartDate,
         unitOfMeasure          |-> r.unitOfMeasure,
         product                |-> r.product,
         meterCategory          |-> r.meterCategory,
         invoiceSectionName     |-> r.invoiceSectionName,
         additionalInfo         |-> r.additionalInfo,
         quantity               |-> quantity,
         NumHoursInMonth        |-> hours,
         NumSecondsInMonth      |-> seconds,
         instanceVCPU           |-> vcpu,
         monthlyUsage           |-> monthly,
         totalVMs               |-> IF vcpu = None THEN NaN ELSE MulInt(vcpu, monthly),
         totalFunctions         |-> IF r.product = "Functions"
                                    THEN DivInt(quantity, seconds) ELSE Num(0),
         totalAppServices       |-> IF r.meterCategory = "Azure App Service"
                                    THEN DivInt(quantity, hours) ELSE Num(0)]

\* lines 101-119: groupby leaves out the rows whose key is missing
AzureSummary(detail) ==
    LET keys   == GroupKeys(Column(detail, "invoiceSectionName"))
        group(k) == SelectSeq(detail, LAMBDA r : r.invoiceSectionName = k)
        groups == [g \in 1..Len(keys) |->
                     [label            |-> keys[g],
                      totalVMs         |-> SumSkipNa(Column(group(keys[g]), "totalVMs")),
                      totalFunctions   |-> SumSkipNa(Column(group(keys[g]), "totalFunctions")),
                      totalAppServices |-> SumSkipNa(Column(group(keys[g]), "totalAppServices"))]]
    IN  Append(groups,
               [label            |-> "Total",
                totalVMs         |-> ColumnTotal(groups, "totalVMs"),
                totalFunctions   |-> ColumnTotal(groups, "totalFunctions"),
                totalAppServices |-> ColumnTotal(groups, "totalAppServices")])

\* parse_billing_csv(filename); emptyApply as for Provider A (line 60)
azure_parse_billing_csv(file, emptyApply) ==
    LET detail == [i \in 1..Len(file) |-> AzureDerive(i, file[i])]
    IN  IF file = <<>> /\ emptyApply = "raise"
        THEN [status |-> "ValueError", df |-> <<>>, total_df |-> <<>>]
        ELSE [status |-> "ok", df |-> detail, total_df |-> AzureSummary(detail)]

----------------------------------------------------------------------------
(* Provider C: parsers/gcp_parser.py                                       *)

\* date.toordinal(): the days from 0001-01-01
RECURSIVE DaysBeforeMonth(_, _)
DaysBeforeMonth(y, m) ==
    IF m = 1 THEN 0 ELSE DaysBeforeMonth(y, m - 1) + DaysInMonth(y, m - 1)

Ordinal(date) ==
    LET p == date.y - 1
    IN  p * 365 + (p \div 4) - (p \div 100) + (p \div 400)
          + DaysBeforeMonth(date.y, date.m) + date.d

RECURSIVE MinOf(_)
MinOf(xs) == IF Len(xs) = 1 THEN xs[1] ELSE Min(Head(xs), MinOf(Tail(xs)))

RECURSIVE MaxOf(_)
MaxOf(xs) == IF Len(xs) = 1 THEN xs[1] ELSE Max(Head(xs), MaxOf(Tail(xs)))

\* the period taken from the dates of the first row alone
hours_per_month_first_row(file) ==
    ((Ordinal(file[1].UsageEndDate) - Ordinal(file[1].UsageStartDate)) + 1) * 24

\* lines 45-52: the period of the file in hours
hours_per_month(file) ==
    LET min_date == MinOf([i \in 1..Len(file) |-> Ordinal(file[i].UsageStartDate)])
        max_date == MaxOf([i \in 1..Len(file) |-> Ordinal(file[i].UsageEndDate)])
        num_days == (max_date - min_date) + 1
    IN  num_days * 24

\* a conversion that gives 0 for a cell that is not a number
ToNumericOrZero(s) == IF IsNumeric(s) THEN Num(DigitsValue(s)) ELSE Num(0)

\* pd.to_numeric(errors="coerce")
ToNumeric(s) == IF IsNumeric(s) THEN Num(DigitsValue(s)) ELSE NaN

Instance_Core == <<"Instance Core">>
CPU_Time == <<"CPU Time">>

GcpDerive(i, r, hpm) ==
    LET amount  == ToNumeric(r.UsageAmount)
        monthly == IF r.UsageUnit = "hour" THEN DivInt(amount, hpm)
                   ELSE IF r.UsageUnit = "vCPU-second" THEN DivInt(amount, hpm * 60 * 60)
                   ELSE IF r.UsageUnit = "GHz-second" THEN DivInt(amount, hpm * 60 * 60)
                   ELSE Num(0)
    IN  [index              |-> i,
         UsageStartDate     |-> r.UsageStartDate,
         UsageEndDate       |-> r.UsageEndDate,
         UsageAmount        |-> amount,
         UsageUnit          |-> r.UsageUnit,
         SKUDescription     |-> r.SKUDescription,
         ServiceDescription |-> r.ServiceDescription,
         ProjectID          |-> r.ProjectID,
         monthlyUsage       |-> monthly,
         ComputeEngine      |-> IF Contains(r.SKUDescription, Instance_Core)
                                    /\ r.ServiceDescription = "Compute Engine"
                                THEN monthly ELSE Num(0),
         AppEngine          |-> IF Contains(r.SKUDescription, Instance_Core)
                                    /\ r.ServiceDescription = "App Engine"
                                THEN monthly ELSE Num(0),
         CloudFunctions     |-> IF Contains(r.SKUDescription, CPU_Time)
                                    /\ r.ServiceDescription = "Cloud Functions"
                                THEN monthly ELSE Num(0)]

\* lines 108-132: groupby leaves out the rows whose key is missing
GcpSummary(detail) ==
    LET keys   == GroupKeys(Column(detail, "ProjectID"))
        group(k) == SelectSeq(detail, LAMBDA r : r.ProjectID = k)
        groups == [g \in 1..Len(keys) |->
                     [label          |-> keys[g],
                      ComputeEngine  |-> SumSkipNa(Column(group(keys[g]), "ComputeEngine")),
                      AppEngine      |-> SumSkipNa(Column(group(keys[g]), "AppEngine")),
                      CloudFunctions |-> SumSkipNa(Column(group(keys[g]), "CloudFunctions"))]]
    IN  Append(groups,
               [label          |-> "Total",
                ComputeEngine  |-> ColumnTotal(groups, "ComputeEngine"),
                AppEngine      |-> ColumnTotal(groups, "AppEngine"),
                CloudFunctions |-> ColumnTotal(groups, "CloudFunctions")])

\* parse_billing_csv(filename); emptyApply as for Provider A (line 59)
gcp_parse_billing_csv(file, emptyApply) ==
    LET detail == [i \in 1..Len(file) |-> GcpDerive(i, file[i], hours_per_month(file))]
    IN  IF file = <<>> /\ emptyApply = "raise"
        THEN [status |-> "ValueError", df |-> <<>>, total_df |-> <<>>]
        ELSE [status |-> "ok", df |-> detail, total_df |-> GcpSummary(detail)]

----------------------------------------------------------------------------
(* The schema detector: get_parser.py                                      *)

AWS_REQUIRED ==
    {"RecordType", "LinkedAccountId", "UsageStartDate", "UsageType", "UsageQuantity"}

AZURE_REQUIRED ==
    {"billingPeriodStartDate", "unitOfMeasure", "product", "quantity",
     "meterCategory", "invoiceSectionName", "additionalInfo"}

GCP_REQUIRED ==
    {"Usage amount", "SKU description", "Usage unit", "Usage start date",
     "Usage end date", "Project ID"}

\* the detector testing Provider B before Provider A
ClassifyAzureFirst(columns) ==
    IF \A col \in AZURE_REQUIRED : col \in columns
    THEN [label |-> "Azure Billing Summary", parser |-> "azure_parser"]
    ELSE IF \A col \in AWS_REQUIRED : col \in columns
    THEN [label |-> "AWS Billing Summary", parser |-> "aws_parser"]
    ELSE IF \A col \in GCP_REQUIRED : col \in columns
    THEN [label |-> "GCP Billing Summary", parser |-> "gcp_parser"]
    ELSE [label |-> "", parser |-> "None"]

\* lines 30-73: the result for the columns that were read
Classify(columns) ==
    IF \A col \in AWS_REQUIRED : col \in columns
    THEN [label |-> "AWS Billing Summary", parser |-> "aws_parser"]
    ELSE IF \A col \in AZURE_REQUIRED : col \in columns
    THEN [label |-> "Azure Billing Summary", parser |-> "azure_parser"]
    ELSE IF \A col \in GCP_REQUIRED : col \in columns
    THEN [label |-> "GCP Billing Summary", parser |-> "gcp_parser"]
    ELSE [label |-> "", parser |-> "None"]

\* the lines of the file: the header, then the data rows
NumLines(hdr, data) == IF hdr = {} THEN 0 ELSE 1 + Len(data)

\* the stream left behind the line that was read, seek(0) forgotten
AfterSeekMissing(pos) == pos + 1

\* where the stream stands once seek(0) has run (line 28)
AfterSeek(pos) == 0

\* get_csv_parser(file_or_filename), lines 19-73.  read_csv(nrows=0) takes the
\* line at the read position as the header and raises EmptyDataError when
\* nothing is left to read; a filename is opened anew and read from its start.
\* pos is the position of the caller's stream when the call ends.
get_csv_parser(k, hdr, data, pos) ==
    LET from    == IF k = "filename" THEN 0 ELSE pos
        columns == IF from = 0 THEN hdr ELSE data[from]
    IN  IF from >= NumLines(hdr, data)
        THEN [status |-> "EmptyDataError", label |-> "", parser |-> "None",
              pos |-> IF k = "filename" THEN pos ELSE NumLines(hdr, data)]
        ELSE [status |-> "ok", label |-> Classify(columns).label,
              parser |-> Classify(columns).parser,
              pos |-> IF k = "filename" THEN pos ELSE AfterSeek(pos)]

----------------------------------------------------------------------------
(* The lookup service of Provider A: cache file and remote query.          *)

\* json.dump(value): the members of an object in some order of the keys
RECURSIVE JsonDumps(_)
RECURSIVE JsonMembers(_, _)
JsonDumps(v) ==
    IF v.type = "int" THEN JsonNumber(v.value)
    ELSE IF v.type = "list" THEN JsonArray
    ELSE IF v.type = "NoneType" THEN JsonNull
    ELSE JsonObject(JsonMembers(v.items, DOMAIN v.items))

JsonMembers(f, ks) ==
    IF ks = {} THEN <<>>
    ELSE LET k == CHOOSE x \in ks : TRUE
         IN  <<Member(k, JsonDumps(f[k]))>> \o JsonMembers(f, ks \ {k})

\* a lookup (instance-type name -> vCPU count) as a Python dict, and back
ToPy(m) == PyDict([k \in DOMAIN m |-> PyInt(m[k])])
FromPy(v) == [k \in DOMAIN v.items |-> v.items[k].value]

\* load_instance_types_from_cache(), lines 51-57: cache.get is called on
\* whatever json.load returned
load_instance_types_from_cache(file) ==
    IF file.kind \in {"absent", "malformed"}
    THEN [status |-> "ok", value |-> <<>>]
    ELSE LET cache == JsonLoads(file)
         IN  IF cache.type # "dict"
             THEN [status |-> "AttributeError", value |-> <<>>]
             ELSE IF "instance_types" \in DOMAIN cache.items
             THEN [status |-> "ok", value |-> FromPy(cache.items["instance_types"])]
             ELSE [status |-> "ok", value |-> <<>>]

\* save_instance_types_to_cache(instance_types), lines 116-118: the new file
save_instance_types_to_cache(m) ==
    JsonDumps(PyDict("instance_types" :> ToPy(m)))

\* describe_instance_types(ec2, next_token), lines 67-79.  pages are the
\* answers the service still has to give: a page of instance types with or
\* without a NextToken, or an exception.  ClientError is not a BotoCoreError
\* and is not caught.
RECURSIVE describe_instance_types(_)
describe_instance_types(pages) ==
    LET response == Head(pages)
    IN  IF response.error = "BotoCoreError"
        THEN [status |-> "ok", list |-> <<>>]
        ELSE IF response.error = "ClientError"
        THEN [status |-> "ClientError", list |-> <<>>]
        ELSE IF response.NextToken
        THEN LET rest == describe_instance_types(Tail(pages))
             IN  IF rest.status # "ok" THEN rest
                 ELSE [status |-> "ok", list |-> response.InstanceTypes \o rest.list]
        ELSE [status |-> "ok", list |-> response.InstanceTypes]

\* load_instance_types_from_api(), lines 92-105: the dict of the comprehension
load_instance_types_from_api(pages) ==
    LET described == describe_instance_types(pages)
        list  == described.list
        names == {list[i].InstanceType : i \in 1..Len(list)}
        last(k) == CHOOSE i \in 1..Len(list) :
                       /\ list[i].InstanceType = k
                       /\ \A j \in (i + 1)..Len(list) : list[j].InstanceType # k
    IN  [status |-> described.status,
         value  |-> IF described.status = "ok"
                    THEN [k \in names |-> list[last(k)].DefaultVCpus]
                    ELSE <<>>]

\* load_aws_instance_types(use_cache=...), lines 29-40: the lookup and the
\* cache file it leaves
load_aws_instance_types(useCache, file, pages) ==
    IF useCache
    THEN LET loaded == load_instance_types_from_cache(file)
         IN  [status |-> loaded.status, value |-> loaded.value, file |-> file]
    ELSE LET fetched == load_instance_types_from_api(pages)
         IN  [status |-> fetched.status,
              value  |-> fetched.value,
              file   |-> IF fetched.status = "ok" /\ fetched.value # <<>>
                         THEN save_instance_types_to_cache(fetched.value)
                         ELSE file]

\* main(billing_csv, use_cache) of parsers/aws_parser.py, lines 237-259
aws_main(data, useCache, file, pages, emptyApply) ==
    LET first    == load_aws_instance_types(useCache, file, pages)
        fallback == load_instance_types_from_cache(first.file)
        useStale == ~useCache /\ first.status = "ok" /\ first.value = <<>>
        lookup   == IF useStale THEN fallback.value ELSE first.value
        raised   == IF first.status # "ok" THEN first.status
                    ELSE IF useStale /\ fallback.status # "ok" THEN fallback.status
                    ELSE "ok"
        parsed   == aws_parse_billing_csv(data, lookup, emptyApply)
    IN  IF raised # "ok"
        THEN [status |-> raised, instance_types |-> <<>>, file |-> first.file,
              df |-> <<>>, total_df |-> <<>>]
        ELSE [status |-> parsed.status, instance_types |-> lookup, file |-> first.file,
              df |-> parsed.df, total_df |-> parsed.total_df]

\* main(billing_csv) of azure_parser.py, lines 125-140, called as cli calls
\* every parser, with the keyword argument use_cache: the function has no such
\* parameter and the call raises TypeError before the body runs
azure_main(data, useCache, emptyApply) ==
    [status |-> "TypeError", instance_types |-> <<>>, df |-> <<>>, total_df |-> <<>>]

\* main(billing_csv, *args, **kwargs) of parsers/gcp_parser.py, line 144
gcp_main(data, useCache, emptyApply) ==
    LET parsed == gcp_parse_billing_csv(data, emptyApply)
    IN  [status |-> parsed.status, instance_types |-> <<>>,
         df |-> parsed.df, total_df |-> parsed.total_df]

\* cli(billing_csv, use_cache), cli.py lines 42-54
cli(hdr, data, useCache, file, pages, emptyApply) ==
    LET detected == get_csv_parser("filename", hdr, data, 0)
        none     == [label |-> detected.label, parser |-> detected.parser,
                     instance_types |-> <<>>, file |-> file,
                     df |-> <<>>, total_df |-> <<>>]
    IN  IF detected.status # "ok"
        THEN [none EXCEPT !.label = "", !.parser = "None"] @@ [status |-> detected.status]
        ELSE IF detected.parser = "None"
        THEN none @@ [status |-> "Invalid CSV format"]
        ELSE LET run == IF detected.parser = "aws_parser"
                        THEN aws_main(data, useCache, file, pages, emptyApply)
                        ELSE IF detected.parser = "azure_parser"
                        THEN azure_main(data, useCache, emptyApply) @@ [file |-> file]
                        ELSE gcp_main(data, useCache, emptyApply) @@ [file |-> file]
             IN  [label |-> detected.label, parser |-> detected.parser] @@ run

----------------------------------------------------------------------------
(* Input files of Provider A.                                              *)

Jan2024 == [y |-> 2024, m |-> 1, d |-> 1]
Feb2024 == [y |-> 2024, m |-> 2, d |-> 1]

m5_large == <<"m5.large">>
c5_xlarge == <<"c5.xlarge">>

AwsRow(rt, la, date, pc_, ut, q) ==
    [RecordType |-> rt, LinkedAccountId |-> la, PayerAccountId |-> "999",
     UsageStartDate |-> date, ProductCode |-> pc_, UsageType |-> ut, UsageQuantity |-> q]

Q744  == <<"7", "4", "4">>
Q1488 == <<"1", ",", "4", "8", "8">>
Qabc  == <<"a", "b", "c">>

AwsRows ==
    \* instance rows of two accounts, two months, known and unknown types
    { AwsRow("LinkedLineItem", la, date, "AmazonEC2", <<"BoxUsage", ":">> \o name, q) :
        la \in {"111", "222"}, date \in {Jan2024, Feb2024},
        name \in {m5_large, <<"x9.none">>}, q \in {Q744, Q1488} }
    \cup
    \* account totals, payer line items and rows without an account
    { AwsRow(x[1], x[2], Jan2024, "AmazonEC2", <<"BoxUsage", ":">> \o c5_xlarge, Q1488) :
        x \in {<<"AccountTotal", "111">>, <<"AccountTotal", Null>>,
               <<"PayerLineItem", Null>>, <<"LinkedLineItem", Null>>} }
    \cup
    \* a payer line item whose PayerAccountId cell is empty as well
    { [AwsRow("PayerLineItem", Null, Jan2024, "AmazonEC2",
              <<"BoxUsage", ":">> \o c5_xlarge, Q1488) EXCEPT !.PayerAccountId = Null] }
    \cup
    \* function and container rows, with one or both conditions of the gate
    { AwsRow("LinkedLineItem", "111", Feb2024, x[1], x[2], Q1488) :
        x \in {<<"AWSLambda", <<"USE1-", "Lambda-GB-Second">>>>,
               <<"AWSLambda", <<"Request">>>>,
               <<"AmazonEC2", <<"Lambda-GB-Second">>>>,
               <<"AmazonECS", <<"USE1-", "Fargate-vCPU-Hours", ":", "perCPU">>>>,
               <<"AmazonECS", <<"Fargate-GB-Hours">>>>,
               <<"AmazonEC2", <<"Fargate-vCPU-Hours", ":", "perCPU">>>>} }
    \cup
    \* quantities that are not numbers
    { AwsRow(rt, "222", Jan2024, "AmazonEC2", <<"BoxUsage", ":">> \o m5_large, Qabc) :
        rt \in {"LinkedLineItem", "AccountTotal"} }

\* the lookups handed to the pipeline
Lookups == { <<>>, (m5_large :> 2) @@ (c5_xlarge :> 4) }

----------------------------------------------------------------------------
(* Input files of Provider B.                                              *)

AzureRow(date, unit, prod, q, mc, section, info) ==
    [billingPeriodStartDate |-> date, unitOfMeasure |-> unit, product |-> prod,
     quantity |-> q, meterCategory |-> mc, invoiceSectionName |-> section,
     additionalInfo |-> info]

Q372 == <<"3", "7", "2">>
Q1488plain == <<"1", "4", "8", "8">>

AdditionalInfos ==
    { NanCell, JsonMalformed,
      JsonObject(<<Member("ServiceType", JsonNumber(7))>>),
      JsonObject(<<Member("ServiceType", JsonNumber(7)), Member("VCPUs", JsonNumber(2))>>),
      JsonObject(<<Member("VCPUs", JsonNull)>>) }

AzureRows ==
    \* virtual machine rows: hourly or not, with every shape of the payload
    { AzureRow(date, unit, "Virtual Machines", Q744, "Virtual Machines", "111", info) :
        date \in {Jan2024, Feb2024}, unit \in {"1 Hour", "1 GB"}, info \in AdditionalInfos }
    \cup
    \* function and app service rows, in a section or without one
    { AzureRow(Feb2024, "1 Hour", x[1], Q1488plain, x[2], section, NanCell) :
        x \in {<<"Functions", "Functions">>, <<"App Service Plan", "Azure App Service">>,
               <<"Functions", "Azure App Service">>, <<"Storage", "Storage">>},
        section \in {"222", Null} }

----------------------------------------------------------------------------
(* Input files of Provider C.                                              *)

GcpRow(start, end, amount, unit, sku, service, project) ==
    [UsageStartDate |-> start, UsageEndDate |-> end, UsageAmount |-> amount,
     UsageUnit |-> unit, SKUDescription |-> sku, ServiceDescription |-> service,
     ProjectID |-> project]

Day(y_, m_, d_) == [y |-> y_, m |-> m_, d |-> d_]

GcpRows ==
    \* compute rows over three usage windows
    { GcpRow(w[1], w[2], amount, unit, <<"N1 ", "Instance Core", " running">>,
             "Compute Engine", "111") :
        w \in {<<Day(2024, 1, 1), Day(2024, 1, 1)>>, <<Day(2024, 1, 31), Day(2024, 1, 31)>>,
               <<Day(2024, 2, 1), Day(2024, 2, 29)>>},
        amount \in {Q372, Qabc}, unit \in {"hour", "vCPU-second"} }
    \cup
    \* one or both conditions of each gate
    { GcpRow(Day(2024, 1, 16), Day(2024, 1, 16), Q372, "GHz-second", x[1], x[2], "222") :
        x \in {<<Instance_Core, "App Engine">>, <<CPU_Time, "Cloud Functions">>,
               <<CPU_Time, "Compute Engine">>, <<Instance_Core, "Cloud Functions">>,
               <<<<"Storage">>, "App Engine">>} }
    \cup
    \* a unit outside the three, and rows without a project
    { GcpRow(Day(2024, 1, 16), Day(2024, 1, 16), Q372, unit, Instance_Core,
             "Compute Engine", project) :
        unit \in {"byte", "hour"}, project \in {"222", Null} }

----------------------------------------------------------------------------
(* The pipelines, each called on one file.                                 *)

Files(rowSet) == UNION { [1..n -> rowSet] : n \in 0..MaxRows }

\* what the installed pandas does with apply on a frame without rows
EmptyApply == {"raise", "frame"}

NoCache == [kind |-> "absent", members |-> <<>>, value |-> 0]

\* the variables a specification does not use
IdleDetector ==
    /\ kind = "filename" /\ header = {} /\ stream_pos = 0 /\ opened_at = 0
    /\ read_back = <<>> /\ label = "" /\ parser = "None"

NoSave == [valid |-> FALSE, value |-> <<>>]

IdleLookup ==
    /\ use_cache = TRUE /\ cache_file = NoCache /\ ec2_api = <<>>
    /\ runs = 0 /\ saved = NoSave

detectorVars == <<kind, header, stream_pos, opened_at, read_back, label, parser>>
lookupVars == <<use_cache, cache_file, ec2_api, runs, saved>>

InitPipelines ==
    /\ pc = "start"
    /\ IdleDetector
    /\ IdleLookup
    /\ \/ provider = "AWS" /\ rows \in Files(AwsRows) /\ instance_types \in Lookups
       \/ provider = "Azure" /\ rows \in Files(AzureRows) /\ instance_types = <<>>
       \/ provider = "GCP" /\ rows \in Files(GcpRows) /\ instance_types = <<>>
    /\ status = "none"
    /\ df = <<>>
    /\ total_df = <<>>

\* parse_billing_csv of parsers/aws_parser.py
AwsParseBillingCsv ==
    /\ pc = "start"
    /\ provider = "AWS"
    /\ \E emptyApply \in EmptyApply :
          \E res \in {aws_parse_billing_csv(rows, instance_types, emptyApply)} :
              /\ status' = res.status
              /\ df' = res.df
              /\ total_df' = res.total_df
    /\ pc' = "done"
    /\ UNCHANGED <<provider, rows, instance_types>>
    /\ UNCHANGED <<detectorVars, lookupVars>>

\* parse_billing_csv of azure_parser.py
AzureParseBillingCsv ==
    /\ pc = "start"
    /\ provider = "Azure"
    /\ \E emptyApply \in EmptyApply :
          \E res \in {azure_parse_billing_csv(rows, emptyApply)} :
              /\ status' = res.status
              /\ df' = res.df
              /\ total_df' = res.total_df
    /\ pc' = "done"
    /\ UNCHANGED <<provider, rows, instance_types>>
    /\ UNCHANGED <<detectorVars, lookupVars>>

\* parse_billing_csv of parsers/gcp_parser.py
GcpParseBillingCsv ==
    /\ pc = "start"
    /\ provider = "GCP"
    /\ \E emptyApply \in EmptyApply :
          \E res \in {gcp_parse_billing_csv(rows, emptyApply)} :
              /\ status' = res.status
              /\ df' = res.df
              /\ total_df' = res.total_df
    /\ pc' = "done"
    /\ UNCHANGED <<provider, rows, instance_types>>
    /\ UNCHANGED <<detectorVars, lookupVars>>

NextPipelines ==
    \/ AwsParseBillingCsv
    \/ AzureParseBillingCsv
    \/ GcpParseBillingCsv

SpecPipelines == InitPipelines /\ [][NextPipelines]_vars

----------------------------------------------------------------------------
(* The detector called on a file name or on an open stream, and the caller *)
(* reading the file afterwards.                                            *)

\* a required set, a required set short of one column, or none of its columns
Partial(required) == {{}, required} \cup {required \ {col} : col \in required}

Headers ==
    { a \cup b \cup c \cup x :
        a \in Partial(AWS_REQUIRED), b \in Partial(AZURE_REQUIRED),
        c \in Partial(GCP_REQUIRED), x \in {{}, {"Cost"}} }

\* the cells of a data line: values, or the column names of a second export
\* appended to the first
DataLines == { {"LinkedLineItem", "744"}, GCP_REQUIRED \cup {"Cost"} }

\* the file as the caller reads it from its first byte
Content(hdr, data) == IF hdr = {} THEN <<>> ELSE <<hdr>> \o data

InitDetect ==
    /\ pc = "start"
    /\ header \in Headers
    /\ rows \in Files(DataLines)
    /\ header = {} => rows = <<>>
    /\ \/ kind = "filename" /\ stream_pos = 0
       \/ kind = "stream" /\ stream_pos \in 0..NumLines(header, rows)
    /\ opened_at = stream_pos
    /\ read_back = <<>> /\ label = "" /\ parser = "None"
    /\ provider = "none"
    /\ IdleLookup
    /\ instance_types = <<>>
    /\ status = "none" /\ df = <<>> /\ total_df = <<>>

pipelineVars == <<provider, instance_types, df, total_df>>

\* get_csv_parser(file_or_filename)
GetCsvParser ==
    /\ pc = "start"
    /\ \E res \in {get_csv_parser(kind, header, rows, stream_pos)} :
           /\ status' = res.status
           /\ label' = res.label
           /\ parser' = res.parser
           /\ stream_pos' = res.pos
    /\ pc' = "detected"
    /\ UNCHANGED <<kind, header, rows, opened_at, read_back, pipelineVars, lookupVars>>

\* the caller reads the file once get_csv_parser has returned: a stream from
\* where it stands, a file name by opening the file
CallerRead ==
    /\ pc = "detected"
    /\ status = "ok"
    /\ LET content == Content(header, rows)
       IN  IF kind = "stream"
           THEN /\ read_back' = SubSeq(content, stream_pos + 1, Len(content))
                /\ stream_pos' = Len(content)
           ELSE /\ read_back' = content
                /\ UNCHANGED stream_pos
    /\ pc' = "read"
    /\ UNCHANGED <<kind, header, rows, opened_at, label, parser, status,
                   pipelineVars, lookupVars>>

NextDetect ==
    \/ GetCsvParser
    \/ CallerRead

SpecDetect == InitDetect /\ [][NextDetect]_vars

----------------------------------------------------------------------------
(* The cache files and the answers of the remote query.                    *)

\* the instance types the service knows, one to a page
InstanceTypePool ==
    <<[InstanceType |-> m5_large, DefaultVCpus |-> 2],
      [InstanceType |-> c5_xlarge, DefaultVCpus |-> 4],
      [InstanceType |-> <<"t3.micro">>, DefaultVCpus |-> 2],
      [InstanceType |-> <<"r5.large">>, DefaultVCpus |-> 2]>>

Page(k, more) == [error |-> "none", InstanceTypes |-> <<InstanceTypePool[k]>>, NextToken |-> more]
Failure(e) == [error |-> e, InstanceTypes |-> <<>>, NextToken |-> FALSE]

\* n - 1 pages with a NextToken, then a last page or an exception
Answers(n, last) == [k \in 1..n |-> IF k < n THEN Page(k, TRUE) ELSE last]

HealthyApi == { Answers(n, Page(n, FALSE)) : n \in 1..MaxPages }

ApiScripts ==
    HealthyApi
    \cup { Answers(n, Failure(e)) : n \in 1..MaxPages, e \in {"BotoCoreError", "ClientError"} }

ApiFailed(pages) == \E k \in 1..Len(pages) : pages[k].error # "none"

\* lookups an earlier run can have left in the cache
StaleLookups == { (m5_large :> 8), (m5_large :> 2) @@ (c5_xlarge :> 4) }

\* the lookups over two instance types
CacheLookups == UNION { [names -> {2, 4}] : names \in SUBSET {m5_large, c5_xlarge} }

\* the cache as a run leaves it: no file, a file cut short, or what
\* save_instance_types_to_cache wrote
LoadableCacheFiles ==
    { NoCache, JsonMalformed } \cup { save_instance_types_to_cache(m) : m \in StaleLookups }

\* the files something else can leave at the path of the cache
CacheFiles ==
    LoadableCacheFiles
    \cup { JsonArray, JsonNumber(0), JsonObject(<<>>),
           JsonObject(<<Member("version", JsonNumber(1))>>),
           JsonObject(<<Member("version", JsonNumber(1)),
                        Member("instance_types", JsonObject(<<Member(m5_large, JsonNumber(2))>>))>>) }

----------------------------------------------------------------------------
(* The command line: cli.py run on one file, the cache in order and the    *)
(* remote service answering.                                               *)

\* exports whose rows every pipeline takes
CliRows(p) ==
    IF p = "AWS"
    THEN { r \in AwsRows : /\ r.RecordType = "LinkedLineItem"
                           /\ r.LinkedAccountId = "111"
                           /\ r.UsageStartDate = Jan2024
                           /\ r.UsageQuantity = Q1488 }
    ELSE IF p = "Azure"
    THEN { r \in AzureRows : r.invoiceSectionName = "222" /\ r.product = "Functions" }
    ELSE { r \in GcpRows : r.ProjectID = "222" /\ r.UsageUnit = "hour" }

Required(p) ==
    IF p = "AWS" THEN AWS_REQUIRED
    ELSE IF p = "Azure" THEN AZURE_REQUIRED ELSE GCP_REQUIRED

\* the columns of the export of provider p that its pipeline reads
Columns(p) ==
    IF p = "AWS" THEN AWS_REQUIRED \cup {"PayerAccountId", "ProductCode"}
    ELSE IF p = "Azure" THEN AZURE_REQUIRED
    ELSE GCP_REQUIRED \cup {"Service description"}

InitCli ==
    /\ pc = "start"
    /\ kind = "filename" /\ stream_pos = 0 /\ opened_at = 0 /\ read_back = <<>>
    /\ label = "" /\ parser = "None"
    /\ provider \in {"AWS", "Azure", "GCP"}
    /\ \E x \in {{}, {"Cost"}} :
          header \in {Columns(provider) \cup x}
                       \cup {(Columns(provider) \ {col}) \cup x : col \in Required(provider)}
    /\ rows \in Files(CliRows(provider)) \ {<<>>}
    /\ use_cache \in BOOLEAN
    /\ cache_file \in LoadableCacheFiles
    /\ ec2_api \in HealthyApi
    /\ runs = 0 /\ saved = NoSave
    /\ instance_types = <<>>
    /\ status = "none" /\ df = <<>> /\ total_df = <<>>

\* cli(billing_csv, use_cache)
Cli ==
    /\ pc = "start"
    /\ \E emptyApply \in EmptyApply :
          \E res \in {cli(header, rows, use_cache, cache_file, ec2_api, emptyApply)} :
              /\ label' = res.label
              /\ parser' = res.parser
              /\ status' = res.status
              /\ instance_types' = res.instance_types
              /\ cache_file' = res.file
              /\ df' = res.df
              /\ total_df' = res.total_df
    /\ pc' = "done"
    /\ runs' = runs + 1
    /\ UNCHANGED <<kind, header, rows, stream_pos, opened_at, read_back, provider,
                   use_cache, ec2_api, saved>>

NextCli == Cli

SpecCli == InitCli /\ [][NextCli]_vars

----------------------------------------------------------------------------
(* Provider A run after run: main of parsers/aws_parser.py, with or        *)
(* without the cache, the remote service answering or failing.             *)

InitMain ==
    /\ pc = "start"
    /\ IdleDetector
    /\ provider = "AWS"
    /\ rows \in Files(CliRows("AWS")) \ {<<>>}
    /\ use_cache = TRUE /\ ec2_api = <<>>
    /\ cache_file \in LoadableCacheFiles
    /\ runs = 0 /\ saved = NoSave
    /\ instance_types = <<>>
    /\ status = "none" /\ df = <<>> /\ total_df = <<>>

\* main(billing_csv, use_cache, access_key_id, secret_access_key, region)
AwsMain ==
    /\ runs < MaxRuns
    /\ \E useCache \in BOOLEAN, pages \in ApiScripts, emptyApply \in EmptyApply :
          /\ (useCache => pages = Answers(1, Page(1, FALSE)))
          /\ use_cache' = useCache
          /\ ec2_api' = pages
          /\ \E res \in {aws_main(rows, useCache, cache_file, pages, emptyApply)} :
                 /\ status' = res.status
                 /\ instance_types' = res.instance_types
                 /\ cache_file' = res.file
                 /\ df' = res.df
                 /\ total_df' = res.total_df
    /\ pc' = "done"
    /\ runs' = runs + 1
    /\ UNCHANGED <<detectorVars, provider, rows, saved>>

NextMain == AwsMain

SpecMain == InitMain /\ [][NextMain]_vars

----------------------------------------------------------------------------
(* The cache file written, read, and changed from outside.                 *)

InitCache ==
    /\ pc = "start"
    /\ IdleDetector
    /\ provider = "AWS"
    /\ rows = <<>>
    /\ use_cache = TRUE /\ ec2_api = <<>>
    /\ cache_file \in CacheFiles
    /\ runs = 0 /\ saved = NoSave
    /\ instance_types = <<>>
    /\ status = "none" /\ df = <<>> /\ total_df = <<>>

\* save_instance_types_to_cache(instance_types)
SaveInstanceTypesToCache ==
    /\ \E m \in CacheLookups :
          /\ cache_file' = save_instance_types_to_cache(m)
          /\ saved' = [valid |-> TRUE, value |-> m]
    /\ pc' = "saved"
    /\ UNCHANGED <<detectorVars, provider, rows, use_cache, ec2_api, runs,
                   instance_types, status, df, total_df>>

\* load_instance_types_from_cache()
LoadInstanceTypesFromCache ==
    /\ \E res \in {load_instance_types_from_cache(cache_file)} :
           /\ status' = res.status
           /\ instance_types' = res.value
    /\ pc' = "loaded"
    /\ UNCHANGED <<detectorVars, provider, rows, use_cache, ec2_api, runs,
                   cache_file, saved, df, total_df>>

\* the file is removed or rewritten by something else than this program
ReplaceCacheFile ==
    /\ \E file \in CacheFiles :
          /\ cache_file' = file
          /\ saved' = NoSave
    /\ pc' = "replaced"
    /\ UNCHANGED <<detectorVars, provider, rows, use_cache, ec2_api, runs,
                   instance_types, status, df, total_df>>

NextCache ==
    \/ SaveInstanceTypesToCache
    \/ LoadInstanceTypesFromCache
    \/ ReplaceCacheFile

SpecCache == InitCache /\ [][NextCache]_vars

----------------------------------------------------------------------------
(* Properties of the pipelines (SpecPipelines).                            *)

Finished == pc = "done" /\ status = "ok"

Categories ==
    IF provider = "AWS" THEN {"EC2", "Lambda", "Fargate"}
    ELSE IF provider = "Azure" THEN {"totalVMs", "totalFunctions", "totalAppServices"}
    ELSE {"ComputeEngine", "AppEngine", "CloudFunctions"}

\* the rows of the summary table but the last, and the last
GroupRowsOf(t) == SubSeq(t, 1, Len(t) - 1)
TotalRowOf(t) == t[Len(t)]

\* x is the number num / den
IsFraction(x, num, den) == ~IsNaN(x) /\ x.n * den = num * x.d * Pow2(x.e)

\* the sum of column c over the first k rows of t, a missing value counting 0
RECURSIVE SumFirst(_, _, _)
SumFirst(t, c, k) ==
    IF k = 0 THEN Num(0)
    ELSE IF IsNaN(t[k][c]) THEN SumFirst(t, c, k - 1)
    ELSE Add(SumFirst(t, c, k - 1), t[k][c])

\* C1: in each pipeline the summary table ends with one Total row whose value
\* in every category column is the sum of that column over the group rows of
\* the same table, each group occurring once.
C1_TotalIsSumOfGroups ==
    Finished =>
        /\ Len(total_df) >= 1
        /\ TotalRowOf(total_df).label = "Total"
        /\ \A i, j \in 1..(Len(total_df) - 1) :
              total_df[i].label = total_df[j].label => i = j
        /\ \A c \in Categories :
              /\ \A i \in 1..Len(total_df) : ~IsNaN(total_df[i][c])
              /\ TotalRowOf(total_df)[c] = SumFirst(total_df, c, Len(total_df) - 1)

\* a summary with two groups, each with a non-zero value in the same column
C1_Witness ==
    /\ Finished
    /\ Len(total_df) = 3
    /\ \E c \in Categories : total_df[1][c].n > 0 /\ total_df[2][c].n > 0

\* the qualifying condition of category c for the file row r
Qualifies(r, c) ==
    IF c = "EC2" THEN LastSegment(r.UsageType) \in DOMAIN instance_types
    ELSE IF c = "Lambda" THEN r.ProductCode = "AWSLambda" /\ Contains(r.UsageType, <<"Lambda-GB-Second">>)
    ELSE IF c = "Fargate" THEN r.ProductCode = "AmazonECS"
                                 /\ Contains(r.UsageType, <<"Fargate-vCPU-Hours", ":", "perCPU">>)
    ELSE IF c = "totalVMs" THEN r.unitOfMeasure = "1 Hour"
    ELSE IF c = "totalFunctions" THEN r.product = "Functions"
    ELSE IF c = "totalAppServices" THEN r.meterCategory = "Azure App Service"
    ELSE IF c = "ComputeEngine" THEN Contains(r.SKUDescription, <<"Instance Core">>)
                                       /\ r.ServiceDescription = "Compute Engine"
    ELSE IF c = "AppEngine" THEN Contains(r.SKUDescription, <<"Instance Core">>)
                                   /\ r.ServiceDescription = "App Engine"
    ELSE Contains(r.SKUDescription, <<"CPU Time">>) /\ r.ServiceDescription = "Cloud Functions"

NullVCPUs(r) ==
    LET ms == r.additionalInfo.members
    IN  /\ r.additionalInfo.kind = "object"
        /\ \E i \in 1..Len(ms) :
              /\ ms[i].key = "VCPUs" /\ ms[i].value.kind = "null"
              /\ \A j \in (i + 1)..Len(ms) : ms[j].key # "VCPUs"

C6_AccountTotalExcluded ==
    (Finished /\ provider = "AWS") =>
        /\ \A k \in 1..Len(df) :
              /\ df[k].RecordType # "AccountTotal"
              /\ rows[df[k].index].RecordType # "AccountTotal"
        /\ \A g \in 1..Len(total_df) : \A c \in Categories :
              LET members == SelectSeq(df, LAMBDA r :
                                 total_df[g].label \in {r.LinkedAccountId, "Total"})
              IN  total_df[g][c] = SumFirst(members, c, Len(members))

\* a file with an AccountTotal row of an account that also has a usage row
C6_Witness ==
    /\ Finished /\ provider = "AWS"
    /\ Len(df) >= 1
    /\ \E i \in 1..Len(rows) :
          /\ rows[i].RecordType = "AccountTotal"
          /\ rows[i].LinkedAccountId = df[1].LinkedAccountId
    /\ \E c \in Categories : df[1][c].n > 0

\* C7: for Provider A the compute value of a retained row whose instance type
\* is in the lookup with v vCPUs is v * quantity / hours, the hours being those
\* of the month of the row's own UsageStartDate; m5.large (2 vCPUs) with
\* quantity 744 in a month of 31 days gives 2.
C7_ComputePerRowMonth ==
    (Finished /\ provider = "AWS") =>
        \A k \in 1..Len(df) :
            LET r    == rows[df[k].index]
                name == LastSegment(r.UsageType)
                days == DaysInMonth(r.UsageStartDate.y, r.UsageStartDate.m)
                q    == DigitsValue(SelectSeq(r.UsageQuantity, LAMBDA ch : ch # ","))
            IN  name \in DOMAIN instance_types =>
                  /\ IsFraction(df[k].EC2, instance_types[name] * q, days * 24)
                  /\ (name = <<"m5.large">> /\ instance_types[name] = 2
                        /\ r.UsageQuantity = <<"7", "4", "4">> /\ days = 31)
                      => df[k].EC2 = [n |-> 2, d |-> 1, e |-> 0]

\* a file with the m5.large row of the example and a row of a shorter month
C7_Witness ==
    /\ Finished /\ provider = "AWS"
    /\ Len(df) = 2
    /\ df[1].InstanceVCPU = 2 /\ df[1].NumHoursInMonth = 744
    /\ rows[df[1].index].UsageQuantity = <<"7", "4", "4">>
    /\ df[1].EC2 = [n |-> 2, d |-> 1, e |-> 0]
    /\ df[2].InstanceVCPU = 2 /\ df[2].NumHoursInMonth = 696
    /\ df[2].EC2.n > 0

\* C8: for Provider C the period is ((latest end date - earliest start date)
\* in days + 1) * 24 hours, one value for the file and the divisor of every
\* row; rows from 2024-01-01 to 2024-01-31 give 744, and a row of unit hour
\* with amount 372 then has the monthly usage 1/2.
C8_PeriodOncePerFile ==
    (Finished /\ provider = "GCP" /\ rows # <<>>) =>
        LET starts == {Ordinal(rows[i].UsageStartDate) : i \in 1..Len(rows)}
            ends   == {Ordinal(rows[i].UsageEndDate) : i \in 1..Len(rows)}
            first  == CHOOSE s \in starts : \A t \in starts : s <= t
            last   == CHOOSE s \in ends : \A t \in ends : s >= t
            period == ((last - first) + 1) * 24
        IN  /\ (first = Ordinal([y |-> 2024, m |-> 1, d |-> 1])
                  /\ last = Ordinal([y |-> 2024, m |-> 1, d |-> 31])) => period = 744
            /\ \A k \in 1..Len(df) :
                  LET r == rows[df[k].index]
                  IN  IsNumeric(r.UsageAmount) =>
                        /\ r.UsageUnit = "hour" =>
                              IsFraction(df[k].monthlyUsage, DigitsValue(r.UsageAmount), period)
                        /\ r.UsageUnit \in {"vCPU-second", "GHz-second"} =>
                              IsFraction(df[k].monthlyUsage, DigitsValue(r.UsageAmount),
                                         period * 3600)
                        /\ (r.UsageUnit = "hour" /\ r.UsageAmount = <<"3", "7", "2">>
                              /\ period = 744)
                            => df[k].monthlyUsage = [n |-> 1, d |-> 1, e |-> 1]

\* a file of two one-day rows, on 2024-01-01 and on 2024-01-31, the second of
\* unit hour with amount 372
C8_Witness ==
    /\ Finished /\ provider = "GCP"
    /\ Len(df) = 2
    /\ rows[1].UsageStartDate = [y |-> 2024, m |-> 1, d |-> 1]
    /\ rows[1].UsageEndDate = [y |-> 2024, m |-> 1, d |-> 1]
    /\ rows[2].UsageStartDate = [y |-> 2024, m |-> 1, d |-> 31]
    /\ rows[2].UsageEndDate = [y |-> 2024, m |-> 1, d |-> 31]
    /\ rows[2].UsageUnit = "hour" /\ rows[2].UsageAmount = <<"3", "7", "2">>
    /\ df[2].monthlyUsage = [n |-> 1, d |-> 1, e |-> 1]

----------------------------------------------------------------------------
(* Properties of the detector (SpecDetect).                                *)

Returned == pc \in {"detected", "read"} /\ status = "ok"

\* the columns get_csv_parser was given: those of the line it read
ColumnsRead ==
    IF kind = "filename" \/ opened_at = 0 THEN header ELSE rows[opened_at]

\* C3: get_csv_parser returns the first of Provider A, B, C whose required
\* columns are all in the header: Provider A whenever its columns are there,
\* whatever else is, and the unrecognized result when each provider lacks one.
C3_FirstMatchInOrder ==
    Returned =>
        LET required == <<AWS_REQUIRED, AZURE_REQUIRED, GCP_REQUIRED>>
            parsers  == <<"aws_parser", "azure_parser", "gcp_parser">>
            labels   == <<"AWS Billing Summary", "Azure Billing Summary",
                          "GCP Billing Summary">>
            match(i) == required[i] \subseteq ColumnsRead
        IN  /\ match(1) => parser = "aws_parser"
            /\ (\A i \in 1..3 : \E col \in required[i] : col \notin ColumnsRead)
                  => (parser = "None" /\ label = "")
            /\ \A i \in 1..3 :
                  (match(i) /\ \A j \in 1..(i - 1) : ~match(j))
                      => (parser = parsers[i] /\ label = labels[i])

\* a header with the columns of Provider A, those of Provider B and one more
C3_Witness ==
    /\ Returned
    /\ (AWS_REQUIRED \cup AZURE_REQUIRED \cup {"Cost"}) \subseteq ColumnsRead
    /\ parser = "aws_parser"

\* C4 as stated: when get_csv_parser has returned, the caller's stream stands
\* where it stood before the call, and the caller reads the whole file.
C4_CursorUnchanged ==
    /\ (pc = "detected" /\ status = "ok" /\ kind = "stream") => stream_pos = opened_at
    /\ pc = "read" => read_back = Content(header, rows)

\* C4 as amended: when get_csv_parser has returned, a stream stands at its
\* first byte wherever it stood before, and the caller reads the whole file.
C4_RewoundToStart ==
    /\ (pc = "detected" /\ status = "ok" /\ kind = "stream") => stream_pos = 0
    /\ pc = "read" => read_back = Content(header, rows)

\* a stream that stood past the header, read in full after the call
C4_Witness ==
    /\ pc = "read"
    /\ kind = "stream"
    /\ opened_at > 0
    /\ Len(read_back) >= 2
    /\ read_back[1] = header

----------------------------------------------------------------------------
(* Properties of the dispatcher (SpecCli).                                 *)

\* C5: cli ends in one of two ways: when the header has the required columns
\* of a provider, that pipeline has run and returned its two tables; when it
\* has those of none, the unrecognized result (empty label, no parser) is
\* returned; no exception is raised.
C5_DispatchOutcomes ==
    pc = "done" =>
        IF \E p \in {"AWS", "Azure", "GCP"} : Required(p) \subseteq header
        THEN /\ status = "ok"
             /\ parser # "None"
             /\ Len(df) = Len(rows)
             /\ Len(total_df) >= 1
        ELSE /\ status = "Invalid CSV format"
             /\ label = "" /\ parser = "None"
             /\ df = <<>> /\ total_df = <<>>

----------------------------------------------------------------------------
(* Properties of the lookup service (SpecMain, SpecCache).                 *)

\* C9: a run without the cache whose remote query failed, on whichever page,
\* raises nothing: it takes the cache contents of before the run as the
\* lookup and returns the two tables.
C9_RefreshFailureRecovered ==
    [][(runs' = runs + 1 /\ ~use_cache' /\ ApiFailed(ec2_api'))
          => /\ status' = "ok"
             /\ instance_types' = load_instance_types_from_cache(cache_file).value
             /\ Len(total_df') >= 1]_vars

\* C10: load_instance_types_from_cache raises nothing; it returns the mapping
\* that save_instance_types_to_cache wrote last, and the empty mapping when
\* the file is absent, is not parseable or is not an object with the field
\* instance_types.
C10_CacheRoundTrip ==
    pc = "loaded" =>
        /\ status = "ok"
        /\ saved.valid => instance_types = saved.value
        /\ (~saved.valid /\ (cache_file.kind # "object"
                               \/ \A i \in 1..Len(cache_file.members) :
                                     cache_file.members[i].key # "instance_types"))
              => instance_types = <<>>

----------------------------------------------------------------------------
(* Properties of the Provider A pipeline, row by row (SpecPipelines).      *)

\* the file row the k-th row of the detail table was made from
Source(k) == rows[df[k].index]

\* the rows of the file that lines 135-143 keep
Retained == AwsRetained(rows)

\* the number a quantity cell spells once its commas are removed
QuantityOf(r) == DigitsValue(SelectSeq(r.UsageQuantity, LAMBDA ch : ch # ","))

\* C11: for Provider A, when every retained row's UsageQuantity is a number
\* once its commas are removed, with or without a comma anywhere in the file,
\* the run succeeds and every row computes with that number; when some
\* retained row's is not, the run fails with a data error and returns no table.
C11_QuantityStripped ==
    (pc = "done" /\ provider = "AWS" /\ Retained # <<>>) =>
        IF \A k \in 1..Len(Retained) :
               IsNumeric(SelectSeq(Retained[k].r.UsageQuantity, LAMBDA ch : ch # ","))
        THEN /\ status = "ok"
             /\ Len(df) = Len(Retained)
             /\ \A k \in 1..Len(df) : df[k].UsageQuantity = Num(QuantityOf(Source(k)))
        ELSE /\ status = "ValueError"
             /\ df = <<>> /\ total_df = <<>>

\* the positions in the file of the rows that are not account totals
NotTotals == { i \in 1..Len(rows) : rows[i].RecordType # "AccountTotal" }

\* the positions in the file of the rows of the detail table
Kept == { df[k].index : k \in 1..Len(df) }

\* C12 as stated: for Provider A, the account totals set aside, when some row
\* has a LinkedAccountId the rows of the detail table are the rows that have
\* one, each with its own; when none has, they are the PayerLineItem rows,
\* each with its PayerAccountId as LinkedAccountId; no row of the detail table
\* is without a LinkedAccountId.
C12_PayerRowsAllKept ==
    (Finished /\ provider = "AWS") =>
        /\ IF \E i \in NotTotals : rows[i].LinkedAccountId # Null
           THEN /\ Kept = { i \in NotTotals : rows[i].LinkedAccountId # Null }
                /\ \A k \in 1..Len(df) : df[k].LinkedAccountId = Source(k).LinkedAccountId
           ELSE /\ Kept = { i \in NotTotals : rows[i].RecordType = "PayerLineItem" }
                /\ \A k \in 1..Len(df) : df[k].LinkedAccountId = Source(k).PayerAccountId
        /\ \A k \in 1..Len(df) : df[k].LinkedAccountId # Null

\* C12 as amended: the same, but when no row has a LinkedAccountId the rows
\* of the detail table are the PayerLineItem rows that have a PayerAccountId.
C12_LinkedAccountRecovered ==
    (Finished /\ provider = "AWS") =>
        /\ IF \E i \in NotTotals : rows[i].LinkedAccountId # Null
           THEN /\ Kept = { i \in NotTotals : rows[i].LinkedAccountId # Null }
                /\ \A k \in 1..Len(df) : df[k].LinkedAccountId = Source(k).LinkedAccountId
           ELSE /\ Kept = { i \in NotTotals : /\ rows[i].RecordType = "PayerLineItem"
                                               /\ rows[i].PayerAccountId # Null }
                /\ \A k \in 1..Len(df) : df[k].LinkedAccountId = Source(k).PayerAccountId
        /\ \A k \in 1..Len(df) : df[k].LinkedAccountId # Null
        /\ \A j, k \in 1..Len(df) : j < k => df[j].index < df[k].index

\* a file without any LinkedAccountId: the payer line item with a
\* PayerAccountId is the one row of the detail table, the other row is dropped
C12_Witness ==
    /\ Finished /\ provider = "AWS"
    /\ Len(rows) = 2 /\ Len(df) = 1
    /\ \A i \in 1..2 : rows[i].LinkedAccountId = Null /\ rows[i].RecordType # "AccountTotal"
    /\ Source(1).RecordType = "PayerLineItem"
    /\ df[1].LinkedAccountId = Source(1).PayerAccountId
    /\ df[1].LinkedAccountId # Null

\* the instance type of the k-th row of the detail table is in the lookup
Known(k) == LastSegment(Source(k).UsageType) \in DOMAIN instance_types

\* the sum of column c over the rows of the detail table at the positions ks
RECURSIVE SumOver(_, _)
SumOver(ks, c) ==
    IF ks = {} THEN Num(0)
    ELSE LET k == CHOOSE x \in ks : TRUE
         IN  Add(df[k][c], SumOver(ks \ {k}, c))

\* C13: for Provider A every retained row is a row of the detail table; a row
\* whose instance type is not in the lookup has no vCPU count (not the number
\* 0) and no InstanceName, a row whose type is in it keeps the name; the
\* compute value of a group row and of the Total row is the sum over the rows
\* with a known type alone.
C13_UnknownTypeCountsZero ==
    (Finished /\ provider = "AWS") =>
        /\ Len(df) = Len(Retained)
        /\ \A k \in 1..Len(df) :
              IF Known(k)
              THEN /\ df[k].InstanceName = LastSegment(Source(k).UsageType)
                   /\ df[k].InstanceVCPU = instance_types[df[k].InstanceName]
              ELSE /\ df[k].InstanceName = <<Null>>
                   /\ df[k].InstanceVCPU = None /\ df[k].InstanceVCPU # 0
        /\ \A g \in 1..Len(total_df) :
              total_df[g].EC2 =
                  SumOver({ k \in 1..Len(df) :
                              /\ Known(k)
                              /\ total_df[g].label \in {df[k].LinkedAccountId, "Total"} },
                          "EC2")

\* an account with a row of a known type and a row of an unknown type: the
\* group row has the compute value of the first
C13_Witness ==
    /\ Finished /\ provider = "AWS"
    /\ Len(df) = 2 /\ Len(total_df) = 2
    /\ Known(1) /\ df[1].EC2.n > 0
    /\ ~Known(2) /\ df[2].InstanceName = <<Null>>
    /\ total_df[1].EC2 = df[1].EC2
    /\ total_df[2].EC2 = df[1].EC2

\* x is the number num / (odd * 2^k), for an odd number odd
IsScaled(x, num, odd, k) ==
    /\ ~IsNaN(x)
    /\ IF x.e >= k THEN x.n * odd = num * x.d * Pow2(x.e - k)
       ELSE x.n * odd * Pow2(k - x.e) = num * x.d

\* C14: for Provider A the function value of a retained row is its quantity /
\* (3600 * 1024 * hours of the row's month) when ProductCode is AWSLambda and
\* UsageType contains Lambda-GB-Second, and 0 when either fails; the container
\* value is its quantity / hours of the row's month when ProductCode is
\* AmazonECS and UsageType contains Fargate-vCPU-Hours:perCPU, and 0 when
\* either fails.  With d days in the month, 3600 * 1024 * 24 * d is
\* 675 * d * 2^17.
C14_FunctionAndContainerGates ==
    (Finished /\ provider = "AWS") =>
        \A k \in 1..Len(df) :
            LET r    == Source(k)
                days == DaysInMonth(r.UsageStartDate.y, r.UsageStartDate.m)
                q    == QuantityOf(r)
            IN  /\ IF r.ProductCode = "AWSLambda"
                        /\ Contains(r.UsageType, <<"Lambda-GB-Second">>)
                   THEN IsScaled(df[k].Lambda, q, 675 * OddPart(days), 17 + Twos(days))
                   ELSE df[k].Lambda = Num(0)
                /\ IF r.ProductCode = "AmazonECS"
                        /\ Contains(r.UsageType, <<"Fargate-vCPU-Hours", ":", "perCPU">>)
                   THEN IsFraction(df[k].Fargate, q, days * 24)
                   ELSE df[k].Fargate = Num(0)

\* a function row with a positive function value next to a row of the
\* container product whose usage type lacks the marker and whose value is 0
C14_Witness ==
    /\ Finished /\ provider = "AWS"
    /\ Len(df) = 2
    /\ Source(1).ProductCode = "AWSLambda"
    /\ Contains(Source(1).UsageType, <<"Lambda-GB-Second">>)
    /\ df[1].Lambda.n > 0 /\ df[1].Fargate = Num(0)
    /\ Source(2).ProductCode = "AmazonECS"
    /\ ~Contains(Source(2).UsageType, <<"Fargate-vCPU-Hours", ":", "perCPU">>)
    /\ df[2].Fargate = Num(0) /\ df[2].Lambda = Num(0)

----------------------------------------------------------------------------
(* Properties of the Provider B and C pipelines, row by row                *)
(* (SpecPipelines).                                                        *)

\* the VCPUs value of the payload of the row r, 0 when the payload is
\* missing, cannot be parsed or has no VCPUs member
VCPUsOf(r) ==
    LET ms == r.additionalInfo.members
        at == { i \in 1..Len(ms) : ms[i].key = "VCPUs" }
    IN  IF r.additionalInfo.kind # "object" \/ at = {} THEN 0
        ELSE ms[CHOOSE i \in at : \A j \in at : j <= i].value.value

\* C15: for Provider B the run raises nothing and, for every row of the file,
\* with v the VCPUs value of its payload (0 without one, never missing) and H
\* the hours of the month of its own billingPeriodStartDate: compute is
\* v * quantity / H for the unit 1 Hour and 0 otherwise, function is
\* quantity / (H * 3600) for the product Functions and 0 otherwise, platform
\* hosting is quantity / H for the meter category Azure App Service and 0
\* otherwise.  With d days in the month, 24 * 3600 * d is 675 * d * 2^7.
C15_AzureCategories ==
    (pc = "done" /\ provider = "Azure" /\ rows # <<>>) =>
        /\ status = "ok"
        /\ Len(df) = Len(rows)
        /\ \A k \in 1..Len(df) :
              LET r    == Source(k)
                  days == DaysInMonth(r.billingPeriodStartDate.y, r.billingPeriodStartDate.m)
                  q    == DigitsValue(r.quantity)
                  v    == VCPUsOf(r)
              IN  /\ df[k].index = k
                  /\ df[k].instanceVCPU = v /\ v >= 0
                  /\ IF r.unitOfMeasure = "1 Hour"
                     THEN IsFraction(df[k].totalVMs, v * q, days * 24)
                     ELSE df[k].totalVMs = Num(0)
                  /\ IF r.product = "Functions"
                     THEN IsScaled(df[k].totalFunctions, q, 675 * OddPart(days), 7 + Twos(days))
                     ELSE df[k].totalFunctions = Num(0)
                  /\ IF r.meterCategory = "Azure App Service"
                     THEN IsFraction(df[k].totalAppServices, q, days * 24)
                     ELSE df[k].totalAppServices = Num(0)

\* the period of the file of Provider C in hours: from the earliest start
\* date to the latest end date, both days counted
PeriodHours ==
    LET starts == {Ordinal(rows[i].UsageStartDate) : i \in 1..Len(rows)}
        ends   == {Ordinal(rows[i].UsageEndDate) : i \in 1..Len(rows)}
        first  == CHOOSE x \in starts : \A y \in starts : x <= y
        last   == CHOOSE x \in ends : \A y \in ends : x >= y
    IN  ((last - first) + 1) * 24

\* C16: for Provider C the run raises nothing and, for every row of the file,
\* with P the period in hours: the monthly usage is amount / P for the unit
\* hour, amount / (P * 3600) for vCPU-second and GHz-second, and 0 for another
\* unit; an amount that is not a number makes it missing for the three units;
\* each category has the monthly usage when its marker is in the SKU
\* description and the service is its own, and 0 otherwise.
C16_GcpCategories ==
    (pc = "done" /\ provider = "GCP" /\ rows # <<>>) =>
        /\ status = "ok"
        /\ Len(df) = Len(rows)
        /\ \A k \in 1..Len(df) :
              LET r == Source(k)
                  numeric == IsNumeric(r.UsageAmount)
                  gate(marker, service) ==
                      Contains(r.SKUDescription, <<marker>>) /\ r.ServiceDescription = service
              IN  /\ df[k].index = k
                  /\ IF r.UsageUnit \notin {"hour", "vCPU-second", "GHz-second"}
                     THEN df[k].monthlyUsage = Num(0)
                     ELSE IF ~numeric THEN IsNaN(df[k].monthlyUsage)
                     ELSE IF r.UsageUnit = "hour"
                     THEN IsFraction(df[k].monthlyUsage, DigitsValue(r.UsageAmount), PeriodHours)
                     ELSE IsFraction(df[k].monthlyUsage, DigitsValue(r.UsageAmount),
                                     PeriodHours * 3600)
                  /\ df[k].ComputeEngine = IF gate("Instance Core", "Compute Engine")
                                           THEN df[k].monthlyUsage ELSE Num(0)
                  /\ df[k].AppEngine = IF gate("Instance Core", "App Engine")
                                       THEN df[k].monthlyUsage ELSE Num(0)
                  /\ df[k].CloudFunctions = IF gate("CPU Time", "Cloud Functions")
                                            THEN df[k].monthlyUsage ELSE Num(0)

\* a compute row whose amount is not a number, with a missing compute value,
\* next to a function row in GHz-second with a positive function value
C16_Witness ==
    /\ pc = "done" /\ provider = "GCP" /\ status = "ok"
    /\ Len(df) = 2
    /\ ~IsNumeric(Source(1).UsageAmount) /\ Source(1).UsageUnit = "hour"
    /\ IsNaN(df[1].monthlyUsage) /\ IsNaN(df[1].ComputeEngine)
    /\ df[1].AppEngine = Num(0)
    /\ Source(2).UsageUnit = "GHz-second"
    /\ df[2].CloudFunctions.n > 0 /\ df[2].CloudFunctions = df[2].monthlyUsage
    /\ df[2].ComputeEngine = Num(0)

----------------------------------------------------------------------------
(* Properties of the cache over runs of Provider A (SpecMain).             *)

\* the lookup all the pages of the service spell together
Refreshed(pages) ==
    LET found == { <<k, i>> \in (1..Len(pages)) \X (1..1) :
                     Len(pages[k].InstanceTypes) >= i }
    IN  [name \in { pages[x[1]].InstanceTypes[x[2]].InstanceType : x \in found } |->
            (CHOOSE t \in { pages[x[1]].InstanceTypes[x[2]] : x \in found } :
                 t.InstanceType = name).DefaultVCpus]

\* C17: a run of Provider A changes the cache file only when it is run
\* without the cache and every page of the remote query was answered, and the
\* file then holds the whole refreshed lookup; a run with the cache, and a run
\* whose query failed on its first or on a later page, leave the file as it
\* was.
C17_CacheWrittenOnCompleteRefresh ==
    [][(runs' = runs + 1) =>
          IF ~use_cache' /\ ~ApiFailed(ec2_api')
          THEN /\ load_instance_types_from_cache(cache_file').status = "ok"
               /\ load_instance_types_from_cache(cache_file').value = Refreshed(ec2_api')
          ELSE cache_file' = cache_file]_vars

----------------------------------------------------------------------------
(* Detail rows and summary rows of the three pipelines (SpecPipelines).    *)

\* the group identifier of the k-th row of the detail table
GroupOf(k) ==
    IF provider = "AWS" THEN df[k].LinkedAccountId
    ELSE IF provider = "Azure" THEN df[k].invoiceSectionName
    ELSE df[k].ProjectID

\* C18: in each pipeline every row of the detail table, a row without a group
\* identifier too, belongs to one group row of the summary table and to one
\* only, and the Total row has in every category column the sum of the column
\* over all the rows of the detail table, a missing value counting 0.
C18_EveryDetailRowCounted ==
    Finished =>
        /\ \A k \in 1..Len(df) :
              \E g \in 1..(Len(total_df) - 1) :
                  /\ total_df[g].label = GroupOf(k)
                  /\ \A h \in 1..(Len(total_df) - 1) :
                        total_df[h].label = GroupOf(k) => h = g
        /\ \A c \in Categories :
              TotalRowOf(total_df)[c] = SumFirst(df, c, Len(df))

====
